---- MODULE Spec2Model ----
(***************************************************************************)
(* tfrecorder/utils.py: inspect() dumps up to num_records records of one   *)
(* split of a TFRecord dataset into a fresh, timestamp-named directory:    *)
(* data.csv (header + one row per record) and one image file per record    *)
(* that carries an image_name.                                             *)
(*                                                                         *)
(* Strings that the code takes apart are modelled by their parts: a path   *)
(* is the sequence of its '/'-separated components, a timestamp is the     *)
(* sequence of its digits.  A record is the ordered sequence of its        *)
(* <<key, value>> pairs (a Python dict keeps insertion order).             *)
(***************************************************************************)
EXTENDS Integers, Sequences, FiniteSets, TLC

\* ---------------------------------------------------------------- bounds
MaxLen == 2          \* longest dataset of a split
MaxRecords == 2      \* largest num_records argument
MaxClock == 1        \* last second of the wall clock

Runs == {1, 2}       \* invocations of inspect (separate processes)
OutputDirs == {"output", "out"}
Splits == {"TRAIN", "TEST"}

\* ---------------------------------------------------------------- values
\* A scalar tensor's .numpy() value: a number, or bytes (valid UTF-8 or not).
IntVal(n) == [kind |-> "int", num |-> n]
BytesVal(s) == [kind |-> "bytes", text |-> s, valid |-> TRUE]
BadBytes(s) == [kind |-> "bytes", text |-> s, valid |-> FALSE]

\* str() of a number: its decimal digits.
Digits == <<"0", "1", "2", "3", "4", "5", "6", "7", "8", "9">>

RECURSIVE str(_)
str(n) == IF n < 10 THEN <<Digits[n + 1]>> ELSE str(n \div 10) \o <<Digits[(n % 10) + 1]>>

\* utils.py:34-38.  bytes are decoded as UTF-8 (which fails on invalid
\* bytes); anything else goes through str().
CanStringify(val) == val.kind = "bytes" => val.valid

_stringify(val) == IF val.kind = "bytes" THEN val.text ELSE str(val.num)

\* ---------------------------------------------------------------- records
HasKey(rec, k) == \E j \in 1..Len(rec) : rec[j][1] = k

Lookup(rec, k) == rec[CHOOSE j \in 1..Len(rec) : rec[j][1] = k][2]

Keys(rec) == [j \in 1..Len(rec) |-> rec[j][1]]

\* The records the datasets are built from.
Geometry == << <<"image_width", IntVal(4)>>, <<"image_height", IntVal(4)>>,
               <<"image_channels", IntVal(3)>> >>

RecA == << <<"id", IntVal(1)>>, <<"image_name", BytesVal(<<"gs:", "b", "a.png">>)>>,
           <<"image", BytesVal(<<"blobA">>)>> >> \o Geometry

RecB == << <<"image", BytesVal(<<"blobB">>)>>, <<"id", IntVal(12)>>,
           <<"image_name", BytesVal(<<"b.png">>)>> >> \o Geometry

RecA2 == << <<"id", IntVal(3)>>, <<"image_name", BytesVal(<<"d", "a.png">>)>>,
            <<"image", BytesVal(<<"blobA2">>)>> >> \o Geometry

RecPlain == << <<"id", IntVal(4)>>, <<"label", BytesVal(<<"cat">>)>> >>

RecShort == << <<"id", IntVal(5)>> >>

RecBadText == << <<"id", IntVal(6)>>, <<"label", BadBytes(<<"?">>)>> >>

RecBadBlob == << <<"id", IntVal(7)>>, <<"image_name", BytesVal(<<"d", "c.png">>)>>,
                 <<"image", BadBytes(<<"blobC">>)>> >> \o Geometry

RecNoBlob == << <<"id", IntVal(8)>>, <<"image_name", BytesVal(<<"d", "e.png">>)>> >>

RecAnon == << <<"id", IntVal(9)>>, <<"image", BytesVal(<<"blobF">>)>> >> \o Geometry

RecDirName == << <<"id", IntVal(10)>>, <<"image_name", BytesVal(<<"d", "">>)>>,
                 <<"image", BytesVal(<<"blobG">>)>> >> \o Geometry

Records == {RecA, RecB, RecA2, RecPlain, RecShort, RecBadText, RecBadBlob,
            RecNoBlob, RecAnon, RecDirName}

SeqsUpTo(S, n) == UNION {[1..m -> S] : m \in 0..n}

Datasets == SeqsUpTo(Records, MaxLen)

\* Datasets of the runs that race for one directory.
ConcurrentDatasets == {<<RecA>>, <<RecPlain, RecB>>}

\* ---------------------------------------------------------------- tf.data
\* Mutant: take() that yields one element too many.
take_off_by_one(ds, count) == SubSeq(ds, 1, IF count + 1 < Len(ds) THEN count + 1 ELSE Len(ds))

\* Dataset.take(count): the first count elements, restarting from the first.
take(ds, count) == SubSeq(ds, 1, IF count < Len(ds) THEN count ELSE Len(ds))

\* utils.py:68.  dataset_loader.load(dir) is a dict of split -> dataset;
\* .get(split) is the dataset, or None.
None == [none |-> TRUE, records |-> <<>>]

get(loaded, s) == IF s \in DOMAIN loaded THEN [none |-> FALSE, records |-> loaded[s]] ELSE None

\* Mutant: the check for a missing split left out.
SplitNotFound_unchecked(ds) == FALSE

\* utils.py:69.  `not dataset`: None is falsy, a Dataset object is truthy.
SplitNotFound(ds) == ds.none

\* ---------------------------------------------------------------- paths
\* utils.py:104-106.  strftime('%Y%m%d-%H%M%S') of the clock (in seconds):
\* the day, then zero-padded hours, minutes, seconds.
Pad2(n) == <<Digits[(n \div 10) + 1], Digits[(n % 10) + 1]>>

get_timestamp(now) ==
    str(now \div 86400) \o <<"-">> \o Pad2((now \div 3600) % 24)
        \o Pad2((now \div 60) % 60) \o Pad2(now % 60)

\* utils.py:72-73.  os.path.join(output_dir, 'check-tfrecords-' + timestamp)
DataDir(out, stamp) == <<out, <<"check-tfrecords-">> \o stamp>>

\* Mutant: the head of the path taken for its base name.
basename_head(path) == IF Len(path) = 0 THEN "" ELSE path[1]

\* os.path.split(path)[1]: what follows the last '/'.
basename(path) == IF Len(path) = 0 THEN "" ELSE path[Len(path)]

\* os.path.join(data_dir, name)
Join(dir, name) == <<dir, name>>

CsvPath(dir) == Join(dir, "data.csv")

\* ---------------------------------------------------------------- inspect
\* utils.py:80.  dataset.take(1): the header pass.
first(ds) == take(ds, 1)

\* Mutant: the sample pass goes on where the header pass stopped.
sample_shared_cursor(ds, n) == IF ds = <<>> THEN <<>> ELSE take(Tail(ds), n)

\* utils.py:87.  dataset.take(num_records): the sample pass, a fresh
\* iteration of the same dataset.
sample(ds, n) == take(ds, n)

\* Mutant: the header keeps the 'image' key.
HeaderOf_unfiltered(data) == Keys(data)

\* utils.py:84.  The keys of the first record, without 'image'.
HeaderOf(data) == SelectSeq(Keys(data), LAMBDA k : k # "image")


\* Mutant: the columns are taken from each record anew.
RowColumns_recomputed(hdr, rec) == HeaderOf(rec)

\* utils.py:90.  The columns of a record's row are those of the header.
RowColumns(hdr, rec) == hdr

\* utils.py:90.  [_stringify(r[k]) for k in header] stops at the first
\* column that fails: r[k] on a missing key, or the decoding of its value.
CellError(rec, k) ==
    IF ~HasKey(rec, k) THEN "KeyError"
    ELSE IF ~CanStringify(Lookup(rec, k)) THEN "UnicodeDecodeError"
    ELSE ""

RowError(cols, rec) ==
    LET bad == {j \in 1..Len(cols) : CellError(rec, cols[j]) # ""}
    IN  IF bad = {} THEN ""
        ELSE CellError(rec, cols[CHOOSE j \in bad : \A m \in bad : j <= m])

Row(cols, rec) == [j \in 1..Len(cols) |-> _stringify(Lookup(rec, cols[j]))]

\* Mutant: a record with an image but no image_name is saved under a
\* name made from _OUT_IMAGE_TEMPLATE.
image_target_fallback(rec) ==
    IF HasKey(rec, "image_name")
    THEN {basename(_stringify(Lookup(rec, "image_name")))}
    ELSE IF HasKey(rec, "image") THEN {"image_000.png"} ELSE {}

\* utils.py:94-95.  The file name of the record's image: the base name of
\* its image_name, when it has one.
image_target(rec) ==
    IF HasKey(rec, "image_name")
    THEN {basename(_stringify(Lookup(rec, "image_name")))}
    ELSE {}

\* utils.py:41-48.  record['image'] and the three geometry fields are read
\* first, then the blob is decoded, then the image is saved to outfile
\* (which fails when outfile names the directory itself).
ImageKeys == <<"image", "image_width", "image_height", "image_channels">>

SaveError(rec, name) ==
    IF \E j \in 1..Len(ImageKeys) : ~HasKey(rec, ImageKeys[j]) THEN "KeyError"
    ELSE IF ~Lookup(rec, "image").valid THEN "DecodeError"
    ELSE IF name = "" THEN "IsADirectoryError"
    ELSE ""

\* A file of the file system: its content, how often it was opened for
\* writing (created or truncated), and the runs that did so.
Opened(fs, path, r) ==
    IF path \in DOMAIN fs
    THEN [content |-> <<>>, opens |-> fs[path].opens + 1, by |-> fs[path].by \cup {r}]
    ELSE [content |-> <<>>, opens |-> 1, by |-> {r}]

\* open(path, 'w'): creates the file or truncates it.
open(fs, path, r) == (path :> Opened(fs, path, r)) @@ fs

\* Mutant: data.csv is opened anew (in append mode) for each row.
writerow_reopening(fs, path, row) ==
    [fs EXCEPT ![path].content = Append(@, row), ![path].opens = @ + 1]

\* writer.writerow(row) on the open data.csv
writerow(fs, path, row) ==
    [fs EXCEPT ![path].content = Append(@, row)]

\* utils.py:48.  image.save(outfile) creates or truncates outfile and
\* writes the decoded image.
save(fs, path, rec, r) ==
    (path :> [Opened(fs, path, r) EXCEPT !.content = Lookup(rec, "image").text]) @@ fs

\* Mutant: os.makedirs(path, exist_ok=True).
makedirs_exist_ok(existing, path) ==
    [raised |-> FALSE, dirs |-> existing \cup {path}]

\* utils.py:74.  os.makedirs(path) without exist_ok: raises when the
\* directory is already there.
makedirs(existing, path) ==
    IF path \in existing
    THEN [raised |-> TRUE, dirs |-> existing]
    ELSE [raised |-> FALSE, dirs |-> existing \cup {path}]

\* Mutant: the file opened without a with-block: an exit leaves it as it is.
WithExit_leak(handle) == handle

\* utils.py:76.  Leaving the with-block, by return or by exception, closes f.
WithExit(handle) == "closed"

NoResult == [kind |-> "none", exc |-> "", value |-> <<>>]
Raised(e) == [kind |-> "raise", exc |-> e, value |-> <<>>]
Returned(v) == [kind |-> "return", exc |-> "", value |-> v]

VARIABLES
    clock,        \* the wall clock, in seconds
    dirs,         \* the directories of the file system
    files,        \* the files of the file system: path -> file
    tfrecords,    \* per run: what dataset_loader.load(tfrecord_dir) returns
    split,        \* per run: argument
    num_records,  \* per run: argument
    output_dir,   \* per run: argument
    dataset,      \* per run: local
    data_dir,     \* per run: local
    f,            \* per run: the handle of data.csv: "none", "open", "closed"
    header,       \* per run: local, unbound until the header pass has a record
    taken,        \* per run: records the sample loop has drawn
    pc,           \* per run: position in inspect
    result        \* per run: returned value or raised exception

args == <<tfrecords, split, num_records, output_dir>>
vars == <<clock, dirs, files, tfrecords, split, num_records, output_dir,
          dataset, data_dir, f, header, taken, pc, result>>

Unbound == [set |-> FALSE, cols |-> <<>>]

Idle(r) ==
    /\ tfrecords[r] = ("TRAIN" :> <<>>)
    /\ split[r] = "TRAIN"
    /\ num_records[r] = 0
    /\ output_dir[r] = "output"

InitLocals ==
    /\ clock = 0
    /\ dirs = {}
    /\ files = <<>>
    /\ dataset = [r \in Runs |-> None]
    /\ data_dir = [r \in Runs |-> <<>>]
    /\ f = [r \in Runs |-> "none"]
    /\ header = [r \in Runs |-> Unbound]
    /\ taken = [r \in Runs |-> 0]
    /\ result = [r \in Runs |-> NoResult]

\* One invocation, with every dataset and argument.
Init ==
    /\ InitLocals
    /\ tfrecords \in [Runs -> {("TRAIN" :> ds) : ds \in Datasets}]
    /\ split \in [Runs -> Splits]
    /\ num_records \in [Runs -> 0..MaxRecords]
    /\ output_dir \in [Runs -> {"output"}]
    /\ Idle(2)
    /\ pc = (1 :> "start") @@ (2 :> "idle")

\* Two invocations at once, on one file system and one clock.
InitRace ==
    /\ InitLocals
    /\ tfrecords \in [Runs -> {("TRAIN" :> ds) : ds \in ConcurrentDatasets}]
    /\ split = [r \in Runs |-> "TRAIN"]
    /\ num_records \in [Runs -> 1..MaxRecords]
    /\ output_dir \in [Runs -> OutputDirs]
    /\ pc = [r \in Runs |-> "start"]

\* utils.py:68-70
Load(r) ==
    /\ pc[r] = "start"
    /\ LET got == get(tfrecords[r], split[r])
       IN  /\ dataset' = [dataset EXCEPT ![r] = got]
           /\ IF SplitNotFound(got)
              THEN /\ pc' = [pc EXCEPT ![r] = "raised"]
                   /\ result' = [result EXCEPT ![r] = Raised("ValueError")]
              ELSE /\ pc' = [pc EXCEPT ![r] = "timestamp"]
                   /\ UNCHANGED result
    /\ UNCHANGED <<clock, dirs, files, args, data_dir, f, header, taken>>

\* utils.py:72-73
GetTimestamp(r) ==
    /\ pc[r] = "timestamp"
    /\ data_dir' = [data_dir EXCEPT ![r] = DataDir(output_dir[r], get_timestamp(clock))]
    /\ pc' = [pc EXCEPT ![r] = "makedirs"]
    /\ UNCHANGED <<clock, dirs, files, args, dataset, f, header, taken, result>>

\* utils.py:74
MakeDirs(r) ==
    /\ pc[r] = "makedirs"
    /\ LET made == makedirs(dirs, data_dir[r])
       IN  /\ dirs' = made.dirs
           /\ IF made.raised
              THEN /\ pc' = [pc EXCEPT ![r] = "raised"]
                   /\ result' = [result EXCEPT ![r] = Raised("FileExistsError")]
              ELSE /\ pc' = [pc EXCEPT ![r] = "open"]
                   /\ UNCHANGED result
    /\ UNCHANGED <<clock, files, args, dataset, data_dir, f, header, taken>>

\* utils.py:76-77
Open(r) ==
    /\ pc[r] = "open"
    /\ files' = open(files, CsvPath(data_dir[r]), r)
    /\ f' = [f EXCEPT ![r] = "open"]
    /\ pc' = [pc EXCEPT ![r] = "header"]
    /\ UNCHANGED <<clock, dirs, args, dataset, data_dir, header, taken, result>>

\* utils.py:80-85
WriteHeader(r) ==
    /\ pc[r] = "header"
    /\ LET one == first(dataset[r].records)
       IN  IF one = <<>>
           THEN UNCHANGED <<header, files>>
           ELSE /\ header' = [header EXCEPT ![r] = [set |-> TRUE, cols |-> HeaderOf(one[1])]]
                /\ files' = writerow(files, CsvPath(data_dir[r]), HeaderOf(one[1]))
    /\ pc' = [pc EXCEPT ![r] = "loop"]
    /\ UNCHANGED <<clock, dirs, args, dataset, data_dir, f, taken, result>>

\* utils.py:87-91
WriteRow(r) ==
    /\ pc[r] = "loop"
    /\ LET recs == sample(dataset[r].records, num_records[r])
       IN  /\ taken[r] < Len(recs)
           /\ taken' = [taken EXCEPT ![r] = @ + 1]
           /\ LET rec == recs[taken[r] + 1]
                  cols == RowColumns(header[r].cols, rec)
              IN  IF RowError(cols, rec) # ""
                  THEN /\ pc' = [pc EXCEPT ![r] = "raised"]
                       /\ result' = [result EXCEPT ![r] = Raised(RowError(cols, rec))]
                       /\ f' = [f EXCEPT ![r] = WithExit(@)]
                       /\ UNCHANGED files
                  ELSE /\ files' = writerow(files, CsvPath(data_dir[r]), Row(cols, rec))
                       /\ pc' = [pc EXCEPT ![r] = "image"]
                       /\ UNCHANGED <<f, result>>
    /\ UNCHANGED <<clock, dirs, args, dataset, data_dir, header>>

\* utils.py:94-97
SaveImage(r) ==
    /\ pc[r] = "image"
    /\ LET rec == sample(dataset[r].records, num_records[r])[taken[r]]
           fail(e) == /\ pc' = [pc EXCEPT ![r] = "raised"]
                      /\ result' = [result EXCEPT ![r] = Raised(e)]
                      /\ f' = [f EXCEPT ![r] = WithExit(@)]
                      /\ UNCHANGED files
       IN  IF HasKey(rec, "image_name") /\ ~CanStringify(Lookup(rec, "image_name"))
           THEN fail("UnicodeDecodeError")
           ELSE IF image_target(rec) = {}
           THEN /\ pc' = [pc EXCEPT ![r] = "loop"]
                /\ UNCHANGED <<files, f, result>>
           ELSE LET image_filename == CHOOSE name \in image_target(rec) : TRUE
                    image_path == Join(data_dir[r], image_filename)
                IN  IF SaveError(rec, image_filename) # ""
                    THEN fail(SaveError(rec, image_filename))
                    ELSE /\ files' = save(files, image_path, rec, r)
                         /\ pc' = [pc EXCEPT ![r] = "loop"]
                         /\ UNCHANGED <<f, result>>
    /\ UNCHANGED <<clock, dirs, args, dataset, data_dir, header, taken>>

\* utils.py:99-101
Return(r) ==
    /\ pc[r] = "loop"
    /\ taken[r] = Len(sample(dataset[r].records, num_records[r]))
    /\ result' = [result EXCEPT ![r] = Returned(data_dir[r])]
    /\ f' = [f EXCEPT ![r] = WithExit(@)]
    /\ pc' = [pc EXCEPT ![r] = "done"]
    /\ UNCHANGED <<clock, dirs, files, args, dataset, data_dir, header, taken>>

\* A second passes.
Tick ==
    /\ clock < MaxClock
    /\ clock' = clock + 1
    /\ UNCHANGED <<dirs, files, args, dataset, data_dir, f, header, taken, pc, result>>

Next ==
    \/ \E r \in Runs : Load(r)
    \/ \E r \in Runs : GetTimestamp(r)
    \/ \E r \in Runs : MakeDirs(r)
    \/ \E r \in Runs : Open(r)
    \/ \E r \in Runs : WriteHeader(r)
    \/ \E r \in Runs : WriteRow(r)
    \/ \E r \in Runs : SaveImage(r)
    \/ \E r \in Runs : Return(r)
    \/ Tick

Spec == Init /\ [][Next]_vars

SpecRace == InitRace /\ [][Next]_vars

\* ================================================================ claims
\* What the claims speak of, read off the inputs and the file system.
Input(r) == tfrecords[r]["TRAIN"]

Present(r) == split[r] \in DOMAIN tfrecords[r]

\* The first min(num_records, length) records of the split.
FirstN(r) ==
    [j \in 1..(IF num_records[r] < Len(Input(r)) THEN num_records[r] ELSE Len(Input(r))) |->
        Input(r)[j]]

AllNamed(r) == \A j \in 1..Len(FirstN(r)) : HasKey(FirstN(r)[j], "image_name")

NoneNamed(r) == \A j \in 1..Len(FirstN(r)) : ~HasKey(FirstN(r)[j], "image_name")

\* The base name of a record's image_name: its last path component.
BaseNameOf(rec) ==
    LET path == Lookup(rec, "image_name").text IN path[Len(path)]

FilesIn(dir) == {p \in DOMAIN files : p[1] = dir}

ImagesIn(dir) == {p \in FilesIn(dir) : p[2] # "data.csv"}

Csv(r) == files[CsvPath(data_dir[r])]

Succeeded(r) == pc[r] = "done" /\ result[r].kind = "return"

\* C1: a run whose split is absent from the loaded dataset raises
\* ValueError and nothing else happens in it: no directory is made, no
\* data.csv is opened, no file is written.
C1_SplitNotFound ==
    \A r \in Runs : ~Present(r) =>
        /\ pc[r] \in {"start", "raised"}
        /\ pc[r] = "raised" => result[r] = Raised("ValueError")
        /\ data_dir[r] = <<>>
        /\ f[r] = "none"
        /\ dirs = {}
        /\ files = <<>>

C1_Witness ==
    /\ ~Present(1)
    /\ pc[1] = "raised"
    /\ result[1].exc = "ValueError"
    /\ Len(Input(1)) = MaxLen

\* C2: when the split has at least one record and at least num_records
\* of them, a run that returns leaves a data.csv of num_records + 1 rows
\* in the directory it returns.
C2_RowCount ==
    \A r \in Runs :
        (Succeeded(r) /\ Len(Input(r)) >= 1 /\ Len(Input(r)) >= num_records[r]) =>
            /\ CsvPath(result[r].value) \in DOMAIN files
            /\ Len(files[CsvPath(result[r].value)].content) = num_records[r] + 1

C2_Witness ==
    /\ Succeeded(1)
    /\ num_records[1] = 2
    /\ Len(Input(1)) = 2
    /\ Len(Csv(1).content) = 3

\* C3, as stated: when every sampled record has an image_name (and the
\* split yields num_records records), a run that returns leaves exactly
\* num_records image files.
C3_OneFilePerRecord ==
    \A r \in Runs :
        (Succeeded(r) /\ AllNamed(r) /\ Len(Input(r)) >= num_records[r]) =>
            Cardinality(ImagesIn(data_dir[r])) = num_records[r]

\* C3, amended: when every sampled record has an image_name, a run that
\* returns has saved one image per sampled record, each under the base
\* name of that record's image_name: the image files are the distinct
\* base names, and each was written once per record that bears its name.
C3_OneSavePerRecord ==
    \A r \in Runs :
        (Succeeded(r) /\ AllNamed(r)) =>
            /\ {p[2] : p \in ImagesIn(data_dir[r])} =
                   {BaseNameOf(FirstN(r)[j]) : j \in 1..Len(FirstN(r))}
            /\ \A p \in ImagesIn(data_dir[r]) :
                   files[p].opens =
                       Cardinality({j \in 1..Len(FirstN(r)) : BaseNameOf(FirstN(r)[j]) = p[2]})

C3_Witness ==
    /\ Succeeded(1)
    /\ Input(1) = <<RecA, RecB>>
    /\ num_records[1] = 2
    /\ {p[2] : p \in ImagesIn(data_dir[1])} = {"a.png", "b.png"}

\* C4, as stated: no file is written again (re-opened, truncated) once a
\* step of the run has written it.
C4_NeverOverwritten ==
    \A p \in DOMAIN files : files[p].opens <= 1

\* C4, amended: data.csv is opened once and only grows; an image file is
\* overwritten only by a later sampled record whose image_name has the
\* same base name, and then holds that record's image (last written wins).
C4_Step ==
    \A p \in DOMAIN files : files'[p] # files[p] =>
        \E r \in Runs :
            /\ p[1] = data_dir[r]
            /\ IF p[2] = "data.csv"
               THEN /\ pc[r] \in {"header", "loop"}
                    /\ files'[p].opens = files[p].opens
                    /\ Len(files'[p].content) = Len(files[p].content) + 1
                    /\ SubSeq(files'[p].content, 1, Len(files[p].content)) = files[p].content
               ELSE /\ pc[r] = "image"
                    /\ BaseNameOf(FirstN(r)[taken[r]]) = p[2]
                    /\ files'[p].opens = files[p].opens + 1
                    /\ files'[p].content = Lookup(FirstN(r)[taken[r]], "image").text

C4_OverwrittenBySameName == [][C4_Step]_vars

C4_Witness ==
    /\ Succeeded(1)
    /\ Input(1) = <<RecA, RecA2>>
    /\ num_records[1] = 2
    /\ files[Join(data_dir[1], "a.png")].opens = 2
    /\ files[Join(data_dir[1], "a.png")].content = <<"blobA2">>
    /\ Csv(1).opens = 1

\* C5: once data.csv has been opened, the handle is closed when the run
\* ends, by return or by exception; it is open only inside the with-block.
C5_HandleReleased ==
    \A r \in Runs :
        /\ pc[r] \in {"done", "raised"} => f[r] # "open"
        /\ (pc[r] \in {"done", "raised"} /\ CsvPath(data_dir[r]) \in DOMAIN files
               /\ r \in Csv(r).by) => f[r] = "closed"
        /\ f[r] = "open" => pc[r] \in {"header", "loop", "image"}

C5_Witness ==
    /\ pc[1] = "raised"
    /\ result[1].exc \in {"DecodeError", "KeyError", "UnicodeDecodeError"}
    /\ Len(Csv(1).content) >= 2
    /\ f[1] = "closed"

\* C6: the header row of data.csv never contains 'image'; it is the first
\* record's other field names, in the record's order.
Position(seq, x) == CHOOSE j \in 1..Len(seq) : seq[j] = x

C6_Header ==
    \A r \in Runs : header[r].set =>
        LET cols == Csv(r).content[1]
            keys == Keys(Input(r)[1])
        IN  /\ \A j \in 1..Len(cols) : cols[j] # "image"
            /\ {cols[j] : j \in 1..Len(cols)} = {keys[j] : j \in 1..Len(keys)} \ {"image"}
            /\ \A i, j \in 1..Len(cols) :
                   i < j => Position(keys, cols[i]) < Position(keys, cols[j])

C6_Witness ==
    /\ header[1].set
    /\ Input(1)[1] = RecB
    /\ Csv(1).content[1] =
           <<"id", "image_name", "image_width", "image_height", "image_channels">>

\* C7: when no sampled record has an image_name, the run writes no image:
\* data.csv is the only file of its directory.
C7_NoImages ==
    \A r \in Runs :
        (Present(r) /\ NoneNamed(r)) =>
            /\ ImagesIn(data_dir[r]) = {}
            /\ Succeeded(r) => FilesIn(data_dir[r]) = {CsvPath(data_dir[r])}

C7_Witness ==
    /\ Succeeded(1)
    /\ Input(1) = <<RecAnon, RecAnon>>
    /\ num_records[1] = 2
    /\ FilesIn(data_dir[1]) = {CsvPath(data_dir[1])}

\* C8: no directory is written by two runs: every file has one writing
\* run, and the files of one directory all have the same one, also when
\* both runs read the same second and the same base directory.
C8_ExclusiveDirectory ==
    /\ \A p \in DOMAIN files : Cardinality(files[p].by) = 1
    /\ \A p, q \in DOMAIN files : p[1] = q[1] => files[p].by = files[q].by
    /\ \A r1, r2 \in Runs :
           (r1 # r2 /\ f[r1] # "none" /\ f[r2] # "none") => data_dir[r1] # data_dir[r2]

C8_Witness ==
    /\ data_dir[1] = data_dir[2]
    /\ data_dir[1] # <<>>
    /\ Succeeded(1)
    /\ ImagesIn(data_dir[1]) # {}
    /\ pc[2] = "raised"
    /\ result[2].exc = "FileExistsError"

\* C9: the sample loop starts again at the first record: the data rows
\* written so far are the rows of the first records of the split, in
\* order, the first of them from the record the header came from; a run
\* that returns has written the first min(num_records, length) records.
C9_RowsFromStart ==
    \A r \in Runs : f[r] # "none" =>
        LET rows == Csv(r).content
        IN  /\ Len(rows) <= 1 + Len(FirstN(r))
            /\ \A j \in 2..Len(rows) :
                   rows[j] = [c \in 1..Len(rows[1]) |->
                                 _stringify(Lookup(FirstN(r)[j - 1], rows[1][c]))]
            /\ (Succeeded(r) /\ Input(r) # <<>>) => Len(rows) = 1 + Len(FirstN(r))

C9_Witness ==
    /\ Succeeded(1)
    /\ Input(1) = <<RecPlain, RecShort>>
    /\ num_records[1] = 1
    /\ Csv(1).content = << <<"id", "label">>, << <<"4">>, <<"cat">> >> >>

\* C10: the header is bound once, written as the first row before any
\* data row, and stays as it is: every data row has the header's columns,
\* a later record's extra fields add none, and a run returns only if no
\* sampled record lacked a header field.
C10_State ==
    \A r \in Runs :
        /\ header[r].set =>
               /\ Csv(r).content # <<>>
               /\ Csv(r).content[1] = header[r].cols
               /\ \A j \in 2..Len(Csv(r).content) :
                      Len(Csv(r).content[j]) = Len(header[r].cols)
               /\ Succeeded(r) =>
                      \A j \in 1..Len(FirstN(r)) : \A c \in 1..Len(header[r].cols) :
                          HasKey(FirstN(r)[j], header[r].cols[c])
        /\ (~header[r].set /\ f[r] # "none") => Csv(r).content = <<>>

C10_Step == \A r \in Runs : header[r].set => header'[r] = header[r]

C10_HeaderOnce == [](C10_State) /\ [][C10_Step]_vars

C10_Witness ==
    /\ Succeeded(1)
    /\ Input(1) = <<RecShort, RecPlain>>
    /\ num_records[1] = 2
    /\ header[1].cols = <<"id">>
    /\ Csv(1).content = << <<"id">>, << <<"5">> >>, << <<"4">> >> >>

====
